---- MODULE Spec2Model ----
(***************************************************************************)
(* Model of the Flask scaffold: the layered configuration resolved by the  *)
(* application factory create_app (app/__init__.py), the configuration     *)
(* classes (config.py), the two routes (app/routes.py), the development    *)
(* and production entry points (main.py, wsgi.py) and the bind address     *)
(* computed by gunicorn.conf.py.                                           *)
(*                                                                         *)
(* One behaviour is one operating-system process.  Its inputs (the process *)
(* environment, the optional .env file, the optional instance/config.py,   *)
(* the optional template, the entry point and the argument of create_app)  *)
(* are chosen in Init; the actions are the statements of the entry point   *)
(* and of create_app in program order, followed by the requests served.    *)
(*                                                                         *)
(* Python values are written as strings: "True", "False", "None" and       *)
(* ordinary text.  A dict (os.environ, a class namespace, app.config) is a *)
(* function whose DOMAIN is the set of keys present.                       *)
(***************************************************************************)
EXTENDS Naturals, Sequences, FiniteSets, TLC

VARIABLES
    entry,            \* how the process was started (see Entries)
    config_object,    \* create_app's argument: "None" or an import string
    environ,          \* os.environ
    dotenvInstalled,  \* python-dotenv importable (gunicorn.conf.py:28-36)
    dotenvFile,       \* variables given by a local .env file (empty: no file)
    instanceFile,     \* instance/config.py: [state, ns], state "absent", "malformed" or "present"
    templatePresent,  \* templates/index.html exists
    pc,               \* position of the process
    configModule,     \* the imported module `config`: class name -> own attributes
    app,              \* the Flask object built by create_app (NoApp before line 35)
    exposed,          \* create_app returned: the caller's name `app` is bound
    bind,             \* gunicorn.conf.py's `bind`
    server,           \* the server loop this program started: "none" or "werkzeug"
    responses         \* the responses to the requests handled so far, in order

vars == <<entry, config_object, environ, dotenvInstalled, dotenvFile,
          instanceFile, templatePresent, pc, configModule, app, exposed,
          bind, server, responses>>

inputs == <<entry, config_object, dotenvInstalled, dotenvFile, instanceFile,
            templatePresent>>

(* Bound on the number of requests one behaviour serves. *)
MaxRequests == 3

-----------------------------------------------------------------------------
(* Python values and dict helpers *)

PyTrue == "True"
PyFalse == "False"
PyNone == "None"

PyBool(b) == IF b THEN PyTrue ELSE PyFalse

EmptyDict == [k \in {} |-> PyNone]

(* dict.update: keys of `over` replace same-named keys of `base`. *)
Update(base, over) ==
    [k \in (DOMAIN base) \cup (DOMAIN over) |->
        IF k \in DOMAIN over THEN over[k] ELSE base[k]]

Restrict(d, keys) == [k \in (DOMAIN d) \cap keys |-> d[k]]

(* os.environ.get(name, default) / os.getenv(name, default) *)
EnvGet(env, name, default) == IF name \in DOMAIN env THEN env[name] ELSE default

(* Truthiness of a Python str-or-None: None and "" are falsy. *)
Truthy(v) == v # PyNone /\ v # ""

-----------------------------------------------------------------------------
(* Inputs *)

Entries == {"main_run", "main_import", "wsgi", "gunicorn", "factory"}

Unset == "<unset>"

EnvChoices ==
    [FLASK_DEBUG   : {Unset, "0", "1", "true"},
     SECRET_KEY    : {Unset, "env-secret"},
     PORT          : {Unset, "", "5000"},
     GUNICORN_BIND : {Unset, "", "0.0.0.0:9000"}]

EnvOf(c) ==
    Restrict([k \in {"FLASK_DEBUG", "SECRET_KEY", "PORT", "GUNICORN_BIND"} |-> c[k]],
             {k \in {"FLASK_DEBUG", "SECRET_KEY", "PORT", "GUNICORN_BIND"} : c[k] # Unset})

EnvStates == {EnvOf(c) : c \in EnvChoices}

DotenvFiles == {EmptyDict, [PORT |-> "7000", FLASK_DEBUG |-> "1"]}

ConfigObjects ==
    {PyNone, "", "config.Config", "config.DevelopmentConfig",
     "config.TestingConfig", "config.ProductionConfig", "config.StagingConfig"}

InstanceNamespaces ==
    { EmptyDict,
      [SECRET_KEY |-> "local-secret"],
      [DEBUG |-> PyTrue],
      [DEBUG |-> PyFalse, TESTING |-> PyTrue],
      [SECRET_KEY |-> "local-secret", DEBUG |-> PyFalse],
      [DATABASE_URI |-> "sqlite:///local.db", secret_key |-> "ignored"] }

InstanceFiles ==
    {[state |-> "absent", ns |-> EmptyDict], [state |-> "malformed", ns |-> EmptyDict]}
    \cup {[state |-> "present", ns |-> n] : n \in InstanceNamespaces}

-----------------------------------------------------------------------------
(* config.py *)

(* Variant of ConfigPy: DEBUG taken from the truthiness of FLASK_DEBUG
   instead of the comparison with "1". *)
ConfigPy_DebugTruthy(env) ==
    [Config |->
        [SECRET_KEY |-> EnvGet(env, "SECRET_KEY", "dev-secret-change-me"),
         DEBUG      |-> PyBool(Truthy(EnvGet(env, "FLASK_DEBUG", PyNone))),
         TESTING    |-> PyFalse],
     DevelopmentConfig |-> [DEBUG |-> PyTrue],
     TestingConfig     |-> [TESTING |-> PyTrue, DEBUG |-> PyTrue],
     ProductionConfig  |-> [DEBUG |-> PyFalse]]

(* Variant of ConfigPy: ProductionConfig without its DEBUG = False. *)
ConfigPy_ProductionInherits(env) ==
    [Config |->
        [SECRET_KEY |-> EnvGet(env, "SECRET_KEY", "dev-secret-change-me"),
         DEBUG      |-> PyBool(EnvGet(env, "FLASK_DEBUG", "0") = "1"),
         TESTING    |-> PyFalse],
     DevelopmentConfig |-> [DEBUG |-> PyTrue],
     TestingConfig     |-> [TESTING |-> PyTrue, DEBUG |-> PyTrue],
     ProductionConfig  |-> EmptyDict]

(* Variant of ConfigPy: FLASK_DEBUG defaulting to "1". *)
ConfigPy_DebugDefaultOn(env) ==
    [Config |->
        [SECRET_KEY |-> EnvGet(env, "SECRET_KEY", "dev-secret-change-me"),
         DEBUG      |-> PyBool(EnvGet(env, "FLASK_DEBUG", "1") = "1"),
         TESTING    |-> PyFalse],
     DevelopmentConfig |-> [DEBUG |-> PyTrue],
     TestingConfig     |-> [TESTING |-> PyTrue, DEBUG |-> PyTrue],
     ProductionConfig  |-> [DEBUG |-> PyFalse]]

(* The module body of config.py, evaluated once, at import, against the
   environment of that moment: each class's own attributes. *)
ConfigPy(env) ==
    [Config |->
        [SECRET_KEY |-> EnvGet(env, "SECRET_KEY", "dev-secret-change-me"),
         DEBUG      |-> PyBool(EnvGet(env, "FLASK_DEBUG", "0") = "1"),
         TESTING    |-> PyFalse],
     DevelopmentConfig |-> [DEBUG |-> PyTrue],
     TestingConfig     |-> [TESTING |-> PyTrue, DEBUG |-> PyTrue],
     ProductionConfig  |-> [DEBUG |-> PyFalse]]

(* Variant of ClassAttrs: the base class's attributes shadow the subclass's. *)
ClassAttrs_BaseShadows(mod, cls) ==
    IF cls = "Config" THEN mod.Config ELSE Update(mod[cls], mod.Config)

(* Attributes visible on a class: its own, then those inherited from Config. *)
ClassAttrs(mod, cls) ==
    IF cls = "Config" THEN mod.Config ELSE Update(mod.Config, mod[cls])

(* "config.X" -> "X" for the classes config.py defines; import_string fails
   for every other non-empty string. *)
ClassOf(importString) ==
    CASE importString = "config.Config"            -> "Config"
      [] importString = "config.DevelopmentConfig" -> "DevelopmentConfig"
      [] importString = "config.TestingConfig"     -> "TestingConfig"
      [] importString = "config.ProductionConfig"  -> "ProductionConfig"
      [] OTHER                                     -> "<ImportError>"

Resolvable(importString) == ClassOf(importString) # "<ImportError>"

-----------------------------------------------------------------------------
(* flask.Config as used by create_app *)

UpperNames == {"SECRET_KEY", "DEBUG", "TESTING", "DATABASE_URI", "SESSION_COOKIE_NAME"}

(* str.isupper() on the attribute names that occur *)
IsUpper(name) == name \in UpperNames

(* Flask's built-in defaults, restricted to the keys that occur plus one
   key no source of this repository defines. *)
DefaultConfig ==
    [DEBUG |-> PyNone, TESTING |-> PyFalse, SECRET_KEY |-> PyNone,
     SESSION_COOKIE_NAME |-> "session"]

NoApp == [config |-> EmptyDict, routes |-> {}, built |-> FALSE]

(* Flask(__name__, instance_relative_config=True) *)
Flask == [config |-> DefaultConfig, routes |-> {}, built |-> TRUE]

(* Variant of from_object: keys already present are kept (setdefault). *)
from_object_KeepExisting(config, namespace) ==
    Update(Restrict(namespace, {n \in DOMAIN namespace : IsUpper(n)}), config)

(* Config.from_object: copies every upper-case attribute of the object. *)
from_object(config, namespace) ==
    Update(config, Restrict(namespace, {n \in DOMAIN namespace : IsUpper(n)}))

(* Variant of from_pyfile: silent=False, a missing file raises. *)
from_pyfile_NotSilent(config, file) ==
    CASE file.state = "present" ->
            [ok |-> TRUE,
             config |-> Update(config, Restrict(file.ns, {n \in DOMAIN file.ns : IsUpper(n)}))]
      [] OTHER -> [ok |-> FALSE, config |-> config]

(* Variant of from_pyfile: every failure is swallowed, a file that does not
   compile included. *)
from_pyfile_SwallowAll(config, file) ==
    CASE file.state = "present" ->
            [ok |-> TRUE,
             config |-> Update(config, Restrict(file.ns, {n \in DOMAIN file.ns : IsUpper(n)}))]
      [] OTHER -> [ok |-> TRUE, config |-> config]

(* Config.from_pyfile("config.py", silent=True): a missing file is skipped,
   a file that does not compile raises, otherwise the executed file's
   namespace goes through from_object.  ok = FALSE: the exception propagates. *)
from_pyfile(config, file) ==
    CASE file.state = "absent"    -> [ok |-> TRUE, config |-> config]
      [] file.state = "malformed" -> [ok |-> FALSE, config |-> config]
      [] OTHER                    -> [ok |-> TRUE, config |-> from_object(config, file.ns)]

(* The `debug` property of the Flask object reads config["DEBUG"]. *)
Debug(a) == a.config["DEBUG"] = PyTrue

-----------------------------------------------------------------------------
(* app/routes.py *)

(* The route entries of blueprint `bp`: (method, path, endpoint). *)
bp == {<<"GET", "/", "main.index">>, <<"GET", "/api/health", "main.health">>}

(* index(): render_template("index.html"); a missing template fails that
   one request, which the serving layer answers with a server error. *)
index(hasTemplate) ==
    IF hasTemplate
    THEN [path |-> "/", status |-> 200, mimetype |-> "text/html",
          json |-> <<>>, layout |-> "index.html"]
    ELSE [path |-> "/", status |-> 500, mimetype |-> "text/html",
          json |-> <<>>, layout |-> "error"]

(* Variant of health: the status entry reports the debug flag. *)
health_ReportsDebug(a) ==
    [path |-> "/api/health", status |-> 200, mimetype |-> "application/json",
     json |-> << <<"message", "Hello, Flask!">>,
                 <<"status", IF a.config["DEBUG"] = PyTrue THEN "debug" ELSE "ok">> >>,
     layout |-> IF a.config["DEBUG"] = PyTrue THEN "indented" ELSE "compact"]

(* health(): jsonify of the two-entry dict.  The object is serialised with
   its keys in sorted order (message, status); the text is indented when the
   application is in debug mode and compact otherwise. *)
health(a) ==
    [path |-> "/api/health", status |-> 200, mimetype |-> "application/json",
     json |-> << <<"message", "Hello, Flask!">>, <<"status", "ok">> >>,
     layout |-> IF Debug(a) THEN "indented" ELSE "compact"]

-----------------------------------------------------------------------------
(* gunicorn.conf.py *)

(* load_dotenv(): variables of the .env file are added to the environment;
   variables already set are kept.  Skipped when python-dotenv is missing. *)
load_dotenv(env, installed, file) ==
    IF installed THEN Update(file, env) ELSE env

(* Variant of Bind: GUNICORN_BIND consulted before PORT. *)
Bind_BindEnvFirst(env) ==
    LET port     == EnvGet(env, "PORT", PyNone)
        bind_env == EnvGet(env, "GUNICORN_BIND", PyNone)
    IN  IF Truthy(bind_env)
        THEN bind_env
        ELSE IF Truthy(port) THEN "0.0.0.0:" \o port ELSE "127.0.0.1:8000"

(* Network binding, lines 43-48. *)
Bind(env) ==
    LET port     == EnvGet(env, "PORT", PyNone)
        bind_env == EnvGet(env, "GUNICORN_BIND", PyNone)
    IN  IF Truthy(port)
        THEN "0.0.0.0:" \o port
        ELSE IF Truthy(bind_env) THEN bind_env ELSE "127.0.0.1:8000"

-----------------------------------------------------------------------------
(* Initial state: the inputs of one process, nothing executed yet. *)

Init ==
    /\ entry \in Entries
    /\ config_object \in ConfigObjects
    /\ (entry # "factory" => config_object = PyNone)  \* main.py:17, wsgi.py:15
    /\ environ \in EnvStates
    /\ dotenvInstalled \in BOOLEAN
    /\ dotenvFile \in DotenvFiles
    /\ instanceFile \in InstanceFiles
    /\ templatePresent \in BOOLEAN
    /\ pc = IF entry = "gunicorn" THEN "gunicorn.conf" ELSE "L35"
    /\ configModule = EmptyDict
    /\ app = NoApp
    /\ exposed = FALSE
    /\ bind = ""
    /\ server = "none"
    /\ responses = <<>>

-----------------------------------------------------------------------------
(* gunicorn -c gunicorn.conf.py wsgi:app: the configuration module runs
   before wsgi.py is imported. *)
GunicornConf ==
    /\ pc = "gunicorn.conf"
    /\ environ' = load_dotenv(environ, dotenvInstalled, dotenvFile)
    /\ bind' = Bind(environ')
    /\ pc' = "L35"
    /\ UNCHANGED <<inputs, configModule, app, exposed, server, responses>>

(* create_app, line 35 *)
NewFlask ==
    /\ pc = "L35"
    /\ app' = Flask
    /\ pc' = "L38"
    /\ UNCHANGED <<inputs, environ, configModule, exposed, bind, server, responses>>

(* create_app, line 38: imports `config` (evaluating config.py) and merges
   the base class. *)
LoadBase ==
    /\ pc = "L38"
    /\ configModule' = ConfigPy(environ)
    /\ app' = [app EXCEPT !.config = from_object(@, ClassAttrs(configModule', "Config"))]
    /\ pc' = "L41"
    /\ UNCHANGED <<inputs, environ, exposed, bind, server, responses>>

(* create_app, lines 41-42 *)
LoadVariant ==
    /\ pc = "L41"
    /\ IF Truthy(config_object)
       THEN IF Resolvable(config_object)
            THEN /\ app' = [app EXCEPT !.config =
                               from_object(@, ClassAttrs(configModule, ClassOf(config_object)))]
                 /\ pc' = "L45"
            ELSE /\ pc' = "failed"     \* ImportError leaves create_app
                 /\ app' = app
       ELSE /\ pc' = "L45"
            /\ app' = app
    /\ UNCHANGED <<inputs, environ, configModule, exposed, bind, server, responses>>

(* create_app, line 45 *)
LoadInstance ==
    /\ pc = "L45"
    /\ LET r == from_pyfile(app.config, instanceFile)
       IN  /\ app' = [app EXCEPT !.config = r.config]
           /\ pc' = IF r.ok THEN "L49" ELSE "failed"
    /\ UNCHANGED <<inputs, environ, configModule, exposed, bind, server, responses>>

(* create_app, line 49: register_routes(app) *)
register_routes(a) == [a EXCEPT !.routes = @ \cup bp]

RegisterRoutes ==
    /\ pc = "L49"
    /\ app' = register_routes(app)
    /\ pc' = "L51"
    /\ UNCHANGED <<inputs, environ, configModule, exposed, bind, server, responses>>

(* create_app, line 51: the object is returned and bound by the caller
   (main.py:17, wsgi.py:15, or the direct caller). *)
Return ==
    /\ pc = "L51"
    /\ exposed' = TRUE
    /\ pc' = "ready"
    /\ UNCHANGED <<inputs, environ, configModule, app, bind, server, responses>>

(* Variant of run: the configuration is rebuilt from the defaults. *)
run_ResetsConfig(a, debug) ==
    [a EXCEPT !.config = Update(DefaultConfig, [DEBUG |-> PyBool(debug)])]

(* Flask.run(debug=True): stores the flag in the object's configuration,
   then starts the development server. *)
run(a, debug) == [a EXCEPT !.config = Update(@, [DEBUG |-> PyBool(debug)])]

(* main.py, lines 20-23 *)
AppRun ==
    /\ entry = "main_run"
    /\ pc = "ready"
    /\ app' = run(app, TRUE)
    /\ server' = "werkzeug"
    /\ pc' = "serving"
    /\ UNCHANGED <<inputs, environ, configModule, exposed, bind, responses>>

(* The application accepts requests: under the development server once
   app.run is serving, otherwise as soon as the importer holds `app`. *)
Accepting ==
    /\ exposed
    /\ pc = IF entry = "main_run" THEN "serving" ELSE "ready"
    /\ Len(responses) < MaxRequests

GetHealth ==
    /\ Accepting
    /\ responses' = Append(responses, health(app))
    /\ UNCHANGED <<inputs, environ, configModule, pc, app, exposed, bind, server>>

GetIndex ==
    /\ Accepting
    /\ responses' = Append(responses, index(templatePresent))
    /\ UNCHANGED <<inputs, environ, configModule, pc, app, exposed, bind, server>>

Next ==
    \/ GunicornConf
    \/ NewFlask
    \/ LoadBase
    \/ LoadVariant
    \/ LoadInstance
    \/ RegisterRoutes
    \/ Return
    \/ AppRun
    \/ GetHealth
    \/ GetIndex

Spec == Init /\ [][Next]_vars

TypeOK ==
    /\ entry \in Entries
    /\ pc \in {"gunicorn.conf", "L35", "L38", "L41", "L45", "L49", "L51",
               "ready", "serving", "failed"}
    /\ exposed \in BOOLEAN
    /\ Len(responses) <= MaxRequests

-----------------------------------------------------------------------------
(* Vocabulary of the properties *)

(* create_app has produced its resolved configuration and nothing has
   touched the object since: line 51 reached, or returned and bound. *)
Resolved == pc \in {"L51", "ready"}

NoVariant == config_object = PyNone

VariantSupplied == Truthy(config_object)

Unresolvable == Truthy(config_object) /\ ~Resolvable(config_object)

InstanceDefines(k) == instanceFile.state = "present" /\ k \in DOMAIN instanceFile.ns

BaseProfile == configModule["Config"]

VariantProfile == ClassAttrs(configModule, ClassOf(config_object))

FlaskDebugIsOne == "FLASK_DEBUG" \in DOMAIN environ /\ environ["FLASK_DEBUG"] = "1"

HealthJson == << <<"message", "Hello, Flask!">>, <<"status", "ok">> >>

IsHealthOK(r) == r.status = 200 /\ r.json = HealthJson

-----------------------------------------------------------------------------
(* C1: in the configuration resolved by create_app every key carries the
   value of the last source that defines it, the order being base profile,
   variant profile (if supplied), machine-local instance/config.py (if
   present); a SECRET_KEY of a present machine-local file wins over the base
   and the variant value. *)
C1_LastSourceWins ==
    Resolved =>
        /\ \A k \in DOMAIN app.config :
              IF InstanceDefines(k)
              THEN app.config[k] = instanceFile.ns[k]
              ELSE IF VariantSupplied /\ k \in DOMAIN VariantProfile
              THEN app.config[k] = VariantProfile[k]
              ELSE k \in DOMAIN BaseProfile => app.config[k] = BaseProfile[k]
        /\ InstanceDefines("SECRET_KEY") =>
              app.config["SECRET_KEY"] = instanceFile.ns["SECRET_KEY"]

C1_Witness ==
    /\ pc = "ready"
    /\ config_object = "config.ProductionConfig"
    /\ InstanceDefines("SECRET_KEY") /\ InstanceDefines("DEBUG")
    /\ BaseProfile["SECRET_KEY"] = "env-secret"
    /\ app.config["SECRET_KEY"] = "local-secret"
    /\ app.config["TESTING"] = PyFalse

(* C2 as stated: with no variant, TESTING is false and DEBUG is true exactly
   when FLASK_DEBUG equals "1", for all environment states. *)
C2_Original ==
    (Resolved /\ NoVariant) =>
        /\ app.config["TESTING"] = PyFalse
        /\ (app.config["DEBUG"] = PyTrue) <=> FlaskDebugIsOne

(* C2 amended: with no variant, TESTING is false and DEBUG is true exactly
   when FLASK_DEBUG equals "1", unless a present machine-local file defines
   the key, in which case its value is the resolved one. *)
C2_NoVariantFlags ==
    (Resolved /\ NoVariant) =>
        /\ app.config["TESTING"] =
              IF InstanceDefines("TESTING") THEN instanceFile.ns["TESTING"] ELSE PyFalse
        /\ app.config["DEBUG"] =
              IF InstanceDefines("DEBUG") THEN instanceFile.ns["DEBUG"]
              ELSE PyBool(FlaskDebugIsOne)

C2_Witness ==
    /\ pc = "ready" /\ NoVariant
    /\ FlaskDebugIsOne
    /\ ~InstanceDefines("DEBUG")
    /\ app.config["DEBUG"] = PyTrue
    /\ app.config["TESTING"] = PyFalse

(* C3 as stated: the testing variant always yields TESTING = true and
   DEBUG = true, whatever the environment. *)
C3_Original ==
    (Resolved /\ config_object = "config.TestingConfig") =>
        /\ app.config["TESTING"] = PyTrue
        /\ app.config["DEBUG"] = PyTrue

(* C3 amended: the testing variant yields TESTING = true and DEBUG = true
   whatever the environment variables are, unless a present machine-local
   file defines the key, in which case its value is the resolved one. *)
C3_TestingFlags ==
    (Resolved /\ config_object = "config.TestingConfig") =>
        /\ app.config["TESTING"] =
              IF InstanceDefines("TESTING") THEN instanceFile.ns["TESTING"] ELSE PyTrue
        /\ app.config["DEBUG"] =
              IF InstanceDefines("DEBUG") THEN instanceFile.ns["DEBUG"] ELSE PyTrue

C3_Witness ==
    /\ pc = "ready" /\ config_object = "config.TestingConfig"
    /\ "FLASK_DEBUG" \in DOMAIN environ /\ environ["FLASK_DEBUG"] = "0"
    /\ instanceFile.state = "absent"
    /\ app.config["TESTING"] = PyTrue
    /\ app.config["DEBUG"] = PyTrue

(* C4: the production variant with no machine-local file yields DEBUG =
   false and TESTING = false for every environment (FLASK_DEBUG=1 included),
   and every GET /api/health on that application answers 200 with the fixed
   JSON object. *)
C4_ProductionFlags ==
    (config_object = "config.ProductionConfig" /\ instanceFile.state = "absent") =>
        /\ Resolved =>
              /\ app.config["DEBUG"] = PyFalse
              /\ app.config["TESTING"] = PyFalse
        /\ \A i \in 1..Len(responses) :
              responses[i].path = "/api/health" => IsHealthOK(responses[i])

C4_Witness ==
    /\ config_object = "config.ProductionConfig" /\ instanceFile.state = "absent"
    /\ FlaskDebugIsOne
    /\ pc = "ready"
    /\ app.config["DEBUG"] = PyFalse
    /\ Len(responses) > 0 /\ responses[Len(responses)].path = "/api/health"

(* C5: with instance/config.py absent, create_app does not fail because of
   it (line 45 is passed; a failure can only come from the variant), and the
   resolved configuration equals, key for key, the merge of the base profile
   and the variant profile (if supplied). *)
C5_AbsentInstance ==
    instanceFile.state = "absent" =>
        /\ pc = "failed" => Unresolvable
        /\ pc \in {"L49", "L51", "ready"} =>
              /\ DOMAIN app.config = DOMAIN DefaultConfig
              /\ \A k \in DOMAIN BaseProfile :
                    app.config[k] = IF VariantSupplied THEN VariantProfile[k]
                                    ELSE BaseProfile[k]
              /\ \A k \in DOMAIN app.config \ DOMAIN BaseProfile :
                    app.config[k] = DefaultConfig[k]

C5_Witness ==
    /\ instanceFile.state = "absent"
    /\ pc = "ready"
    /\ config_object = "config.DevelopmentConfig"
    /\ ~FlaskDebugIsOne
    /\ app.config["DEBUG"] = PyTrue

(* C6: an unresolvable variant identifier, or a present but malformed
   instance/config.py, is fatal: create_app returns no application,
   register_routes is never reached, no server is started and no request
   is ever served. *)
C6_FatalConstruction ==
    (Unresolvable \/ instanceFile.state = "malformed") =>
        /\ ~exposed
        /\ pc \notin {"L49", "L51", "ready", "serving"}
        /\ app.routes = {}
        /\ server = "none"
        /\ responses = <<>>

C6_Witness ==
    /\ pc = "failed"
    /\ instanceFile.state = "malformed"
    /\ entry = "main_run"
    /\ app.built /\ ~exposed

C6_WitnessVariant ==
    /\ pc = "failed"
    /\ Unresolvable
    /\ instanceFile.state = "present"

(* C7: every GET /api/health answers 200 with exactly the JSON object
   {"message": "Hello, Flask!", "status": "ok"}; all health responses of one
   application are equal, however they interleave with GET /; and handling
   a request leaves the application object (configuration and routes)
   unchanged. *)
C7_HealthStable ==
    /\ [](\A i \in 1..Len(responses) :
            responses[i].path = "/api/health" =>
                /\ IsHealthOK(responses[i])
                /\ \A j \in 1..Len(responses) :
                      responses[j].path = "/api/health" => responses[j] = responses[i])
    /\ [][Len(responses') > Len(responses) => app' = app]_vars

C7_Witness ==
    /\ Len(responses) = 3
    /\ responses[1].path = "/api/health"
    /\ responses[2].path = "/"
    /\ responses[3].path = "/api/health"
    /\ responses[3] = responses[1]
    /\ app.config["DEBUG"] = PyTrue

(* C8 as stated: the application wsgi.py exposes has DEBUG = false for every
   environment state. *)
C8_Original ==
    (entry \in {"wsgi", "gunicorn"} /\ exposed) => app.config["DEBUG"] = PyFalse

(* C8 amended: wsgi.py calls create_app with no variant, exposes the result
   as `app`, starts no server and leaves DEBUG as create_app resolved it:
   false unless FLASK_DEBUG equals "1" or a present machine-local file sets
   DEBUG. *)
C8_WsgiEntry ==
    entry \in {"wsgi", "gunicorn"} =>
        /\ NoVariant
        /\ server = "none"
        /\ pc # "serving"
        /\ exposed =>
              app.config["DEBUG"] =
                  IF InstanceDefines("DEBUG") THEN instanceFile.ns["DEBUG"]
                  ELSE PyBool(FlaskDebugIsOne)

C8_Witness ==
    /\ entry = "wsgi" /\ exposed
    /\ ~FlaskDebugIsOne /\ ~InstanceDefines("DEBUG")
    /\ app.config["DEBUG"] = PyFalse
    /\ Len(responses) > 0

(* C9 as stated: once create_app has returned, the application object never
   changes, under any entry point and any sequence of requests. *)
C9_Original == [][exposed => app' = app]_vars

(* C9 amended: once create_app has returned, the registered routes and every
   configuration key other than DEBUG never change; the only change is made
   by main.py run as the main process, whose app.run(debug=True) sets DEBUG
   to true before the development server serves; importing main.py or
   wsgi.py and handling requests change nothing. *)
C9_FrozenAfterReturn ==
    [][exposed =>
        /\ app'.routes = app.routes
        /\ DOMAIN app'.config = DOMAIN app.config
        /\ \A k \in DOMAIN app.config \ {"DEBUG"} : app'.config[k] = app.config[k]
        /\ app' # app =>
              /\ entry = "main_run" /\ pc = "ready" /\ pc' = "serving"
              /\ app'.config["DEBUG"] = PyTrue
      ]_vars

C9_Witness ==
    /\ entry = "main_run" /\ pc = "serving"
    /\ server = "werkzeug"
    /\ BaseProfile["DEBUG"] = PyFalse /\ ~InstanceDefines("DEBUG")
    /\ app.config["DEBUG"] = PyTrue
    /\ app.routes = bp
    /\ Len(responses) > 0

(* C10 as stated: whenever PORT is set, bind is "0.0.0.0:<PORT>"; otherwise
   bind is GUNICORN_BIND if it is set; otherwise "127.0.0.1:8000". *)
C10_Original ==
    (entry = "gunicorn" /\ pc # "gunicorn.conf") =>
        bind = IF "PORT" \in DOMAIN environ
               THEN "0.0.0.0:" \o environ["PORT"]
               ELSE IF "GUNICORN_BIND" \in DOMAIN environ
               THEN environ["GUNICORN_BIND"]
               ELSE "127.0.0.1:8000"

(* C10 amended: whenever PORT is set to a non-empty value, bind is
   "0.0.0.0:<PORT>" regardless of GUNICORN_BIND; otherwise bind is the value
   of GUNICORN_BIND if that is set and non-empty; otherwise
   "127.0.0.1:8000". *)
C10_BindPriority ==
    (entry = "gunicorn" /\ pc # "gunicorn.conf") =>
        bind = IF "PORT" \in DOMAIN environ /\ environ["PORT"] # ""
               THEN "0.0.0.0:" \o environ["PORT"]
               ELSE IF "GUNICORN_BIND" \in DOMAIN environ /\ environ["GUNICORN_BIND"] # ""
               THEN environ["GUNICORN_BIND"]
               ELSE "127.0.0.1:8000"

C10_Witness ==
    /\ entry = "gunicorn" /\ pc = "ready"
    /\ "PORT" \in DOMAIN environ /\ environ["PORT"] = "5000"
    /\ "GUNICORN_BIND" \in DOMAIN environ /\ environ["GUNICORN_BIND"] = "0.0.0.0:9000"
    /\ bind = "0.0.0.0:5000"

====
